---- MODULE Spec2Model ----
(***************************************************************************)
(* A model of ApaConverter (src/src/bibtexconvert.py): the conversion of   *)
(* an APA citation into a BibTeX record.                                   *)
(*                                                                         *)
(* A Python str is a tuple of one-character strings, so that splitting,    *)
(* searching, stripping and replacing are computed character by character  *)
(* as the code computes them.  None and False are the one-element tuples   *)
(* NoneV and FalseV, which no str equals (their element is not a single    *)
(* character).                                                             *)
(***************************************************************************)
EXTENDS Naturals, Sequences, FiniteSets, TLC

VARIABLES
    location,        \* self.location of the one shared ApaConverter instance
    entry_location,  \* self.location as it was when the last convert call began
    op,              \* the method the caller invoked last
    input_text,      \* its input_text argument
    bibtex_type,     \* its bibtex_type argument (NoneV when not given)
    result,          \* its outcome: a returned value or a raised exception
    pc,              \* per concurrent caller: its position inside convert
    t_text,          \* per concurrent caller: its input_text
    t_full,          \* per concurrent caller: its local full_bibtex so far
    t_result         \* per concurrent caller: the outcome of its convert call

vars == <<location, entry_location, op, input_text, bibtex_type, result,
          pc, t_text, t_full, t_result>>

-----------------------------------------------------------------------------
(* Python values *)

NoneV == <<"None">>
FalseV == <<"False">>

Pending == [kind |-> "pending", exc |-> "", val |-> <<>>]
Return(v) == [kind |-> "return", exc |-> "", val |-> v]
Raise(e) == [kind |-> "raise", exc |-> e, val |-> <<>>]

\* str(v) inside an f-string
Render(v) == IF v = NoneV THEN <<"N","o","n","e">> ELSE IF v = FalseV THEN <<"F","a","l","s","e">> ELSE v

\* bool(v) of a str or False
Truthy(v) == v # FalseV /\ v # <<>>

-----------------------------------------------------------------------------
(* str primitives *)

Min(S) == CHOOSE x \in S : \A y \in S : x <= y

IsSpace(c) == c \in {" ", "\n", "\t"}

IsDigit(c) == c \in {"0", "1", "2", "3", "4", "5", "6", "7", "8", "9"}

UpperChars == <<"A","B","C","D","E","F","G","H","I","J","K","L","M","N","O","P","Q","R","S","T","U","V","W","X","Y","Z">>
LowerChars == <<"a","b","c","d","e","f","g","h","i","j","k","l","m","n","o","p","q","r","s","t","u","v","w","x","y","z">>

IsAlpha(c) == \E i \in 1..Len(UpperChars) : c = UpperChars[i] \/ c = LowerChars[i]

LowerChar(c) ==
    IF \E i \in 1..Len(UpperChars) : UpperChars[i] = c
    THEN LowerChars[CHOOSE i \in 1..Len(UpperChars) : UpperChars[i] = c]
    ELSE c

\* s.lower()
Lower(s) == [i \in 1..Len(s) |-> LowerChar(s[i])]

\* s[i:] with a 1-based i
From(s, i) == SubSeq(s, i, Len(s))

StartsAt(s, sub, i) == i + Len(sub) - 1 <= Len(s) /\ SubSeq(s, i, i + Len(sub) - 1) = sub

\* the least index of hits, 0 when there is none
First(hits) == IF hits = {} THEN 0 ELSE Min(hits)

\* s.find(sub, from), 1-based; 0 when absent
Find(s, sub, from) == First({i \in from..Len(s) : StartsAt(s, sub, i)})

\* sub in s
Contains(s, sub) == Find(s, sub, 1) # 0

EndsWith(s, sub) == Len(sub) <= Len(s) /\ SubSeq(s, Len(s) - Len(sub) + 1, Len(s)) = sub

\* s.split(sep)
RECURSIVE Split(_, _)
\* the pieces of s, whose first separator is at i (0: none)
SplitAt(s, sep, i) ==
    IF i = 0 THEN <<s>>
    ELSE <<SubSeq(s, 1, i - 1)>> \o Split(From(s, i + Len(sep)), sep)

Split(s, sep) == SplitAt(s, sep, Find(s, sep, 1))

SplitOnceAt(s, sep, i) ==
    IF i = 0 THEN <<s>> ELSE <<SubSeq(s, 1, i - 1), From(s, i + Len(sep))>>

\* s.split(sep, 1)
SplitOnce(s, sep) == SplitOnceAt(s, sep, Find(s, sep, 1))

RECURSIVE Replace(_, _, _)
ReplaceAt(s, old, new, i) ==
    IF i = 0 THEN s
    ELSE SubSeq(s, 1, i - 1) \o new \o Replace(From(s, i + Len(old)), old, new)

\* s.replace(old, new)
Replace(s, old, new) == ReplaceAt(s, old, new, Find(s, old, 1))

Max(S) == CHOOSE x \in S : \A y \in S : y <= x

StripTo(s, keep) == IF keep = {} THEN <<>> ELSE SubSeq(s, Min(keep), Max(keep))

\* s.strip()
Strip(s) == StripTo(s, {i \in 1..Len(s) : ~IsSpace(s[i])})

\* sep.join(parts)
RECURSIVE Join(_, _)
Join(parts, sep) ==
    IF Len(parts) = 0 THEN <<>>
    ELSE IF Len(parts) = 1 THEN parts[1]
    ELSE parts[1] \o sep \o Join(Tail(parts), sep)

-----------------------------------------------------------------------------
(* self.bibtex_type_list, in declaration order *)

bibtex_type_list == <<
    [bibtype |-> <<"a","r","t","i","c","l","e">>,       description |-> <<"a","r","t","i","c","l","e",","," ","p","e","r","i","o","d","i","c","a","l",","," ","j","o","u","r","n","a","l",","," ","m","a","g","a","z","i","n","e">>],
    [bibtype |-> <<"b","o","o","k">>,          description |-> <<"b","o","o","k",","," ","p","u","b","l","i","c","a","t","i","o","n","s",","," "," ","p","u","b","l","i","c","a","t","i","o","n">>],
    [bibtype |-> <<"b","o","o","k","l","e","t">>,       description |-> <<"b","o","o","k",","," ","n","o"," ","p","u","b","l","i","s","h","e","r">>],
    [bibtype |-> <<"i","n","b","o","o","k">>,        description |-> <<"s","e","c","t","i","o","n",","," ","c","h","a","p","t","e","r",","," ","b","o","o","k">>],
    [bibtype |-> <<"i","n","c","o","l","l","e","c","t","i","o","n">>,  description |-> <<"a","r","t","i","c","l","e",","," ","c","o","l","l","e","c","t","i","o","n">>],
    [bibtype |-> <<"i","n","p","r","o","c","e","e","d","i","n","g","s">>, description |-> <<"c","o","n","f","e","r","e","n","c","e",","," ","p","a","p","e","r">>],
    [bibtype |-> <<"m","a","n","u","a","l">>,        description |-> <<"t","e","c","h","n","i","c","a","l",","," ","m","a","n","u","a","l">>],
    [bibtype |-> <<"m","a","s","t","e","r","t","h","e","s","i","s">>,  description |-> <<"M","a","s","t","e","r","s",","," ","t","h","e","s","i","s">>],
    [bibtype |-> <<"p","h","d","t","h","e","s","i","s">>,     description |-> <<"P","h","D",","," ","t","h","e","s","i","s">>],
    [bibtype |-> <<"p","r","o","c","e","e","d","i","n","g","s">>,   description |-> <<"c","o","n","f","e","r","e","n","c","e",","," ","p","r","o","c","e","e","d","i","n","g","s">>],
    [bibtype |-> <<"t","e","c","h","r","e","p","o","r","t">>,    description |-> <<"t","e","c","h","n","i","c","a","l",","," ","r","e","p","o","r","t",","," ","g","o","v","e","r","n","m","e","n","t",","," ","w","h","i","t","e"," ","p","a","p","e","r">>],
    [bibtype |-> <<"u","n","p","u","b","l","i","s","h","e","d">>,   description |-> <<"n","o","t"," ","p","u","b","l","i","s","h","e","d">>] >>

\* the phrases `description.split(',')` yields
Phrases(description) == Split(description, <<",">>)

AnyPhraseIn(phrases, lowered) == \E k \in 1..Len(phrases) : Contains(lowered, phrases[k])

\* `phrase in input_text.lower()` for some phrase of the entry
EntryMatches(entry, input) == AnyPhraseIn(Phrases(entry.description), Lower(input))

\* the return for the entries that match, the first in table order winning
TypeOfHits(hits) ==
    IF hits = {} THEN <<"@","m","i","s","c">> ELSE <<"@">> \o bibtex_type_list[Min(hits)].bibtype

extract_bibtex_type(input) ==
    TypeOfHits({n \in 1..Len(bibtex_type_list) : EntryMatches(bibtex_type_list[n], input)})

-----------------------------------------------------------------------------
(* The static helpers *)

\* a match of (?<=\S\S)(?<!pp)(?<!p)\.  at index i of s ("\. " with a space)
PeriodMatchAt(s, i) ==
    /\ i + 1 <= Len(s)
    /\ s[i] = "."
    /\ s[i + 1] = " "
    /\ i >= 3 /\ ~IsSpace(s[i - 2]) /\ ~IsSpace(s[i - 1])
    /\ ~(i >= 3 /\ SubSeq(s, i - 2, i - 1) = <<"p","p">>)
    /\ ~(i >= 2 /\ s[i - 1] = "p")

\* re.split: the pieces of s[from..] between successive matches, the next at i
RECURSIVE SplitMatches(_, _)
SplitMatchesAt(s, from, i) ==
    IF i = 0 THEN <<SubSeq(s, from, Len(s))>>
    ELSE <<SubSeq(s, from, i - 1)>> \o SplitMatches(s, i + 2)

SplitMatches(s, from) ==
    SplitMatchesAt(s, from, First({i \in from..Len(s) : PeriodMatchAt(s, i)}))

split_by_period(input) == SplitMatches(input, 1)

\* re.sub(r'[^0-9-]', '', s)
KeepNumeric(s) == SelectSeq(s, LAMBDA c : IsDigit(c) \/ c = "-")

\* part.isdigit()
AllDigits(s) == Len(s) > 0 /\ \A i \in 1..Len(s) : IsDigit(s[i])

\* lines 276-280 for the cleaned string and its split on '-'
Rejoined(cleaned, parts) ==
    IF Contains(cleaned, <<"-">>) /\ \A k \in 1..Len(parts) : AllDigits(parts[k])
    THEN Join(parts, <<"-">>)
    ELSE cleaned

Cleaned(cleaned) == Rejoined(cleaned, Split(cleaned, <<"-">>))

remove_non_numeric_chars(input) == Cleaned(KeepNumeric(input))

SchemeChar(c) == IsAlpha(c) \/ IsDigit(c) \/ c \in {"+", "-", "."}

\* urlparse(s): the scheme and the netloc (str without control characters or brackets)
\* whether s[:i] is a scheme, the ':' being at i
HasScheme(s, i) == i > 1 /\ IsAlpha(s[1]) /\ \A k \in 1..(i - 1) : SchemeChar(s[k])

SchemeAt(s, i) == IF HasScheme(s, i) THEN Lower(SubSeq(s, 1, i - 1)) ELSE <<>>

UrlScheme(s) == SchemeAt(s, Find(s, <<":">>, 1))

AfterSchemeAt(s, i) == IF HasScheme(s, i) THEN From(s, i + 1) ELSE s

UrlAfterScheme(s) == AfterSchemeAt(s, Find(s, <<":">>, 1))

\* _splitnetloc(url, 2): up to the first of '/?#'
NetlocTo(url, delim) ==
    IF StartsAt(url, <<"/","/">>, 1)
    THEN SubSeq(url, 3, IF delim = 0 THEN Len(url) ELSE delim - 1)
    ELSE <<>>

NetlocOf(url) == NetlocTo(url, First({i \in 3..Len(url) : url[i] \in {"/", "?", "#"}}))

UrlNetloc(s) == NetlocOf(UrlAfterScheme(s))

LStripFrom(s, i) == IF i = 0 THEN <<>> ELSE From(s, i)

LStripSpace(s) == LStripFrom(s, First({i \in 1..Len(s) : ~IsSpace(s[i])}))

IsUrlOf(url) == UrlScheme(url) # <<>> /\ UrlNetloc(url) # <<>>

is_url(input) == IsUrlOf(LStripSpace(input))

-----------------------------------------------------------------------------
(* The field extractors *)

\* WithPeriod with the condition of line 193 read as `num_authors > 1 and i > 0`
WithPeriodBothNeeded(name, i, num_authors) ==
    IF ~EndsWith(name, <<".">>) /\ (num_authors > 1 /\ i > 1)
    THEN name \o <<".">>
    ELSE name

\* line 193-194: the trailing period forced on a name
WithPeriod(name, i, num_authors) ==
    IF ~EndsWith(name, <<".">>) /\ (num_authors > 1 \/ i > 1)
    THEN name \o <<".">>
    ELSE name

\* line 192 then 193-194, for the i-th (from 1) of num_authors names
AuthorName(author, i, num_authors) ==
    WithPeriod(Replace(Strip(author), <<"&"," ">>, <<>>), i, num_authors)

\* the loop over author_names
AuthorsOf(author_names) ==
    [i \in 1..Len(author_names) |-> AuthorName(author_names[i], i, Len(author_names))]

\* the list `authors` built by get_authors
AuthorsList(input) ==
    AuthorsOf(Split(SplitOnce(split_by_period(input)[1], <<" ","(">>)[1], <<".",",">>))

get_authors(input) == Join(AuthorsList(input), <<" ","a","n","d"," ">>)

TitleOrNone(title) == IF title # <<>> THEN Return(title) ELSE Return(NoneV)

\* parts = input_text.split(').'); IndexError when it has no second element
TitleOf(parts) ==
    IF Len(parts) < 2 THEN Raise("IndexError")
    ELSE TitleOrNone(Strip(Split(parts[2], <<"."," ">>)[1]))

get_title(input) == TitleOf(Split(input, <<")",".">>))

FourDigitsAt(s, i) == IF i = 0 THEN NoneV ELSE SubSeq(s, i, i + 3)

\* re.search(r'\d{4}', s): the first run of four digits of s, None without one
FourDigits(s) ==
    FourDigitsAt(s, First({i \in 1..Len(s) : i + 3 <= Len(s) /\ \A k \in 0..3 : IsDigit(s[i + k])}))

\* the first '(' at open and the first ')' after it at close (0: absent)
YearBetween(input, open, close) ==
    IF open = 0 \/ close = 0 THEN NoneV
    ELSE FourDigits(SubSeq(input, open + 1, close - 1))

YearFrom(input, open) == YearBetween(input, open, Find(input, <<")">>, open + 1))

get_year(input) == YearFrom(input, Find(input, <<"(">>, 1))

\* segments[n] with a 0-based n: IndexError past the end
Element(segments, n) ==
    IF n + 1 <= Len(segments) THEN Return(segments[n + 1]) ELSE Raise("IndexError")

\* split_by_period(input)[n]
Segment(input, n) == Element(split_by_period(input), n)

\* lines 209-213 for location_publisher = string.split(':')
PublisherOf(location_publisher) ==
    IF Len(location_publisher) > 1
    THEN [kind |-> "return", exc |-> "",
          val |-> Replace(Strip(location_publisher[2]), <<".">>, <<>>),
          location |-> Strip(location_publisher[1])]
    ELSE [kind |-> "return", exc |-> "",
          val |-> Replace(Strip(location_publisher[1]), <<".">>, <<>>),
          location |-> FalseV]

PublishersOf(self_location, seg) ==
    IF seg.kind = "raise"
    THEN [kind |-> "raise", exc |-> seg.exc, val |-> <<>>, location |-> self_location]
    ELSE PublisherOf(Split(seg.val, <<":">>))

\* get_publishers without line 212: self.location is left as it was when the
\* segment holds no colon
PublisherOfStale(self_location, location_publisher) ==
    IF Len(location_publisher) > 1
    THEN PublisherOf(location_publisher)
    ELSE [PublisherOf(location_publisher) EXCEPT !.location = self_location]

PublishersOfStale(self_location, seg) ==
    IF seg.kind = "raise"
    THEN [kind |-> "raise", exc |-> seg.exc, val |-> <<>>, location |-> self_location]
    ELSE PublisherOfStale(self_location, Split(seg.val, <<":">>))

get_publishers_stale(self_location, input) ==
    PublishersOfStale(self_location, Segment(input, 2))

\* get_publishers: the publisher returned and the value self.location is set to
get_publishers(self_location, input) == PublishersOf(self_location, Segment(input, 2))

\* what unpacking a str iterates over: its characters
Chars(journal) == [i \in 1..Len(journal) |-> <<journal[i]>>]

BareJournal(journal) == [kind |-> "return", exc |-> "", val |-> journal, items |-> Chars(journal)]

\* lines 225-236 for string = string.split(',')
JournalOf(string) ==
    IF Len(string) = 3
    THEN [kind |-> "return", exc |-> "", val |-> <<>>,
          items |-> <<Strip(string[1]), Strip(string[2]),
                      Replace(Strip(string[3]), <<".">>, <<>>)>>]
    ELSE IF Len(string) = 2
    THEN [kind |-> "return", exc |-> "", val |-> <<>>,
          items |-> <<Replace(Strip(string[1]), <<".">>, <<>>),
                      Replace(Strip(string[2]), <<".">>, <<>>)>>]
    ELSE BareJournal(Replace(Strip(string[1]), <<".">>, <<>>))

JournalIn(seg) ==
    IF seg.kind = "raise"
    THEN [kind |-> "raise", exc |-> seg.exc, val |-> <<>>, items |-> <<>>]
    ELSE JournalOf(Split(seg.val, <<",">>))

\* get_journal: a 3-tuple, a 2-tuple or a bare str; `items` is what unpacking
\* the value iterates over (the elements of a tuple, the characters of a str)
get_journal(input) == JournalIn(Segment(input, 2))

get_booktitle(input) == Segment(input, 2)

HowpublishedOf(seg) == IF seg.kind = "raise" THEN NoneV ELSE seg.val

\* the IndexError is caught: None
get_howpublished(input) == HowpublishedOf(Segment(input, 3))

-----------------------------------------------------------------------------
(* convert *)

\* `bibtex_type not in self.bibtex_type_list`: the keys of the table
InTypeList(type) == \E n \in 1..Len(bibtex_type_list) : bibtex_type_list[n].bibtype = type

\* lines 52-55: the bibtex_type convert goes on with, or the NameError
ResolveType(input, type) ==
    IF type = NoneV THEN Return(extract_bibtex_type(input))
    ELSE IF ~InTypeList(type) THEN Raise("NameError")
    ELSE Return(type)

FirstWord(words, whole) == IF Len(words) > 1 THEN words[1] ELSE whole

\* lines 62-64
NameAuthor(first) == FirstWord(Split(first, <<" ">>), first)

\* lines 65-68
NameTitle(title) == Lower(FirstWord(Split(title, <<" ">>), title))

\* line 69: the citation key
BibtexName(author, year, title) ==
    NameAuthor(Lower(SplitOnce(author, <<","," ">>)[1])) \o year \o NameTitle(title)

\* lines 62-70: the record up to the year, or the exception raised on the way
HeaderOf(type, author, title, year) ==
    IF title.kind = "raise" THEN title
    ELSE IF title.val = NoneV THEN Raise("AttributeError")
    ELSE IF year = NoneV THEN Raise("TypeError")
    ELSE Return(type \o <<"{">> \o BibtexName(author, year, title.val) \o <<","," ","\n"," ","a","u","t","h","o","r"," ","="," ","{">>
                \o author \o <<"}",","," ","\n"," ","t","i","t","l","e"," ","="," ","{">> \o title.val \o <<"}",","," ","\n"," ","y","e","a","r"," ","="," ">>
                \o year \o <<","," ","\n"," ">>)

\* lines 58-70
Header(input, type) == HeaderOf(type, get_authors(input), get_title(input), get_year(input))

PublisherField(publisher) == <<"p","u","b","l","i","s","h","e","r"," ","="," ","{">> \o publisher \o <<"}",","," ","\n"," ">>

LocationField(loc) == <<"l","o","c","a","t","i","o","n"," ","="," ","{">> \o Render(loc) \o <<"}",","," ","\n"," ">>

\* lines 76-78 for what get_publishers returned and set
BookFieldsOf(p) ==
    IF p.kind = "raise" THEN p
    ELSE [p EXCEPT !.val = PublisherField(p.val)
                            \o (IF Truthy(p.location) THEN LocationField(p.location) ELSE <<>>)]

\* lines 74-78 run without interruption
BookFields(self_location, input) == BookFieldsOf(get_publishers(self_location, input))

\* lines 93-100: the three values unpacked
ThreeFields(journal, second, third, contains_page) ==
    IF Contains(second, <<"(">>)
    THEN Return(<<"j","o","u","r","n","a","l"," ","="," ","{">> \o journal \o <<"}",","," ","\n"," ","v","o","l","u","m","e"," ","="," ","{">> \o contains_page[1]
                \o <<"}",","," ","\n"," ","n","u","m","b","e","r"," ","="," ","{">> \o Replace(contains_page[2], <<")">>, <<>>)
                \o <<"}",","," ","\n"," ","p","a","g","e","s"," ","="," ","{">> \o Replace(third, <<"p"," ">>, <<>>) \o <<"}",","," ","\n">>)
    ELSE Return(<<"j","o","u","r","n","a","l"," ","="," ","{">> \o journal \o <<"}",","," ","\n"," ","v","o","l","u","m","e"," ","="," ","{">> \o second
                \o <<"}",","," ","\n"," ","p","a","g","e","s"," ","="," ","{">> \o third \o <<"}",","," ","\n">>)

\* lines 85-89: the two values unpacked
TwoFields(journal, second) ==
    IF Contains(second, <<"-">>)
    THEN Return(<<"j","o","u","r","n","a","l"," ","="," ","{">> \o journal \o <<"}",","," ","\n"," ","p","a","g","e","s"," ","="," ","{">>
                \o remove_non_numeric_chars(second) \o <<"}",","," ","\n"," ">>)
    ELSE Return(<<"j","o","u","r","n","a","l"," ","="," ","{">> \o journal \o <<"}",","," ","\n"," ","v","o","l","u","m","e"," ","="," ","{">> \o second \o <<"}",","," ","\n"," ">>)

\* lines 83-103: unpacking into two names, then three, raises ValueError unless
\* the value iterates over exactly that many items
ArticleFieldsOf(j, it) ==
    IF j.kind = "raise" THEN Raise(j.exc)
    ELSE IF Len(it) = 2 THEN TwoFields(it[1], it[2])
    ELSE IF Len(it) = 3 THEN ThreeFields(it[1], it[2], it[3], Split(it[2], <<"(">>))
    ELSE Return(<<"j","o","u","r","n","a","l"," ","="," ","{">> \o j.val \o <<"}",","," ","\n">>)

ArticleFieldsFor(j) == ArticleFieldsOf(j, j.items)

ArticleFields(input) == ArticleFieldsFor(get_journal(input))

\* lines 110-114 for segment = booktitle.split('(')
BooktitlePages(segment) ==
    Return(<<"b","o","o","k","t","i","t","l","e"," ","="," ","{">> \o Strip(segment[1]) \o <<"}",","," ","\n"," ","p","a","g","e","s"," ","="," ","{">>
           \o remove_non_numeric_chars(Strip(segment[2])) \o <<"}",","," ","\n">>)

\* lines 108-116
InproceedingsFieldsOf(b) ==
    IF b.kind = "raise" THEN b
    ELSE IF Contains(b.val, <<"(">>) THEN BooktitlePages(Split(b.val, <<"(">>))
    ELSE Return(<<"b","o","o","k","t","i","t","l","e"," ","="," ","{">> \o b.val \o <<"}",","," ","\n">>)

InproceedingsFields(input) == InproceedingsFieldsOf(get_booktitle(input))

\* lines 121-125
MiscFieldsOf(howpublished) ==
    IF howpublished = NoneV THEN Return(<<>>)
    ELSE IF is_url(howpublished)
    THEN Return(<<"h","o","w","p","u","b","l","i","s","h","e","d"," ","="," ","{">> \o Replace(howpublished, <<"h","t","t","p">>, <<"u","r","l"," ","h","t","t","p">>) \o <<"}",","," ","\n">>)
    ELSE Return(<<"h","o","w","p","u","b","l","i","s","h","e","d"," ","="," ","{">> \o howpublished \o <<"}",","," ","\n">>)

MiscFields(input) == MiscFieldsOf(get_howpublished(input))

WithLocation(f, loc) == [kind |-> f.kind, exc |-> f.exc, val |-> f.val, location |-> loc]

\* lines 74-125: the type-specific fields and the value self.location is left with
TypeFields(self_location, input, type) ==
    IF type = <<"@","b","o","o","k">> THEN BookFields(self_location, input)
    ELSE IF type = <<"@","a","r","t","i","c","l","e">> THEN WithLocation(ArticleFields(input), self_location)
    ELSE IF type = <<"@","i","n","p","r","o","c","e","e","d","i","n","g","s">> THEN WithLocation(InproceedingsFields(input), self_location)
    ELSE IF type = <<"@","m","i","s","c">> THEN WithLocation(MiscFields(input), self_location)
    ELSE WithLocation(Return(<<>>), self_location)

\* line 128-129 after the header h and the fields f
Closed(h, f) ==
    IF f.kind = "raise" THEN f
    ELSE [kind |-> "return", exc |-> "", val |-> h.val \o f.val \o <<"}">>, location |-> f.location]

\* lines 58-129 for the resolved type t
ConvertAs(self_location, input, t, h) ==
    IF h.kind = "raise" THEN WithLocation(h, self_location)
    ELSE Closed(h, TypeFields(self_location, input, t.val))

ConvertWith(self_location, input, t) ==
    IF t.kind = "raise" THEN WithLocation(t, self_location)
    ELSE ConvertAs(self_location, input, t, Header(input, t.val))

\* convert(input, type) on an instance whose self.location is self_location:
\* the outcome and the value self.location is left with
convert(self_location, input, type) ==
    ConvertWith(self_location, input, ResolveType(input, type))

Outcome(r) == [kind |-> r.kind, exc |-> r.exc, val |-> r.val]

-----------------------------------------------------------------------------
(* The callers' inputs *)

MaxAuthors == 2
MaxSplitLen == 6
MaxAuthLen == 6
MaxWords == 3

Surnames == << <<"S","m","i","t","h",","," ","J",".">>, <<"J","o","n","e","s",","," ","A",".">>, <<"L","e","e",","," ","K",".">> >>

\* an APA author list of n names: "A., B., & C."
RECURSIVE AuthorList(_)
AuthorList(n) ==
    LET name == Surnames[((n - 1) % Len(Surnames)) + 1]
    IN  IF n = 1 THEN name
        ELSE IF n = 2 THEN AuthorList(1) \o <<","," ","&"," ">> \o name
        ELSE Replace(AuthorList(n - 1), <<","," ","&"," ">>, <<","," ">>) \o <<","," ","&"," ">> \o name

Years == { <<" ","(","2","0","2","0",")","."," ">>, <<" ","(","n",".","d",".",")","."," ">>, <<" ","2","0","2","0","."," ">> }

Titles == { <<"A"," ","b","o","o","k">>, <<"A","n"," ","a","r","t","i","c","l","e">>, <<"A"," ","p","a","p","e","r">>, <<"S","t","u","f","f">>, <<>> }

Rests == { <<".">>, <<"."," ","S","p","r","i","n","g","e","r",".">>, <<"."," ","N","e","w"," ","Y","o","r","k",":"," ","W","i","l","e","y",".">>, <<"."," ","A","I",".">>, <<"."," ","N","a","t","u","r","e",".">>,
           <<"."," ","N","a","t","u","r","e",","," ","1","-","2",".">>, <<"."," ","N","a","t","u","r","e",","," ","5",".">>, <<"."," ","N","a","t","u","r","e",","," ","5","(","2",")",","," ","p"," ","1","0",".">>,
           <<"."," ","N","a","t","u","r","e",","," ","5",","," ","1","0","0","-","1","1","0",".">>, <<"."," ","C","o","n","f"," ","(","p","p","."," ","1","-","9",")",".">>,
           <<"."," ","W","e","b","."," ","h","t","t","p","s",":","/","/","x",".","o","r","g">>, <<"."," ","W","e","b","."," ","O","t","h","e","r">> }

Citations ==
    {AuthorList(1) \o <<" ","(","2","0","2","0",")","."," ">> \o t \o r : t \in Titles, r \in Rests}
    \cup {AuthorList(n) \o <<" ","(","2","0","2","0",")","."," ">> \o <<"A"," ","b","o","o","k">> \o <<"."," ","N","e","w"," ","Y","o","r","k",":"," ","W","i","l","e","y",".">> : n \in 1..MaxAuthors}
    \cup {AuthorList(1) \o y \o t \o <<"."," ","S","p","r","i","n","g","e","r",".">> : y \in Years, t \in {<<"A"," ","b","o","o","k">>, <<"S","t","u","f","f">>}}

DeclaredCitations ==
    {AuthorList(1) \o <<" ","(","2","0","2","0",")","."," ">> \o t \o r :
        t \in {<<"A"," ","g","r","e","a","t"," ","s","t","u","d","y">>},
        r \in {<<"."," ","N","e","w"," ","Y","o","r","k",":"," ","W","i","l","e","y",".">>, <<"."," ","J","o","u","r","n","a","l"," ","o","f"," ","T","h","i","n","g","s",","," ","5",","," ","1","0","0","-","1","1","0",".">>}}

TableTypes == {bibtex_type_list[n].bibtype : n \in 1..Len(bibtex_type_list)}

DeclaredTypes == TableTypes \cup { <<"m","i","s","c">>, <<"@","m","i","s","c">>, <<"@","a","r","t","i","c","l","e">>, <<"j","o","u","r","n","a","l","p","a","p","e","r">> }

Calls ==
    {[text |-> c, type |-> NoneV] : c \in Citations}
    \cup {[text |-> c, type |-> t] : c \in DeclaredCitations, t \in DeclaredTypes}

\* the calls of a reused instance: book citations with and without a location,
\* classified or with a declared type, accepted or not
ReuseRests == { <<".">>, <<"."," ","S","p","r","i","n","g","e","r",".">>, <<"."," ","N","e","w"," ","Y","o","r","k",":"," ","W","i","l","e","y",".">>, <<"."," ","L","o","n","d","o","n",":"," ","S","a","g","e",".">>, <<"."," ",":"," ","W","i","l","e","y",".">> }

ReuseCalls ==
    {[text |-> AuthorList(n) \o <<" ","(","2","0","2","0",")","."," ">> \o t \o r, type |-> ty] :
        n \in 1..MaxAuthors, t \in {<<"A"," ","b","o","o","k">>, <<"S","t","u","f","f">>}, r \in ReuseRests,
        ty \in {NoneV, <<"b","o","o","k">>, <<"m","i","s","c">>}}

Threads == {1, 2}

ConcCitations ==
    {AuthorList(1) \o <<" ","(","2","0","2","0",")","."," ">> \o <<"A"," ","b","o","o","k">> \o r : r \in ReuseRests}
    \cup {AuthorList(1) \o <<" ","(","2","0","2","0",")","."," ">> \o <<"S","t","u","f","f">> \o <<"."," ","W","e","b","."," ","O","t","h","e","r">>}

Strings(alphabet, n) == UNION {[1..k -> alphabet] : k \in 0..n}

SplitInputs == Strings({"a", "p", ".", " "}, MaxSplitLen)

AuthorInputs == Strings({"a", ".", ",", " ", "&", "("}, MaxAuthLen)

Words == { <<"J","o","u","r","n","a","l">>, <<"b","o","o","k">>, <<"c","h","a","p","t","e","r">>, <<"t","h","e","s","i","s">>, <<"P","h","D">>, <<"p","a","p","e","r">>, <<"2","0","2","0">> }

RECURSIVE Texts(_)
Texts(n) ==
    IF n = 1 THEN Words
    ELSE Texts(n - 1) \cup {t \o <<" ">> \o w : t \in Texts(n - 1), w \in Words}

ClassifyInputs == Texts(MaxWords)

-----------------------------------------------------------------------------
(* The state machine *)

Idle ==
    /\ pc = [t \in Threads |-> "idle"]
    /\ t_text = [t \in Threads |-> <<>>]
    /\ t_full = [t \in Threads |-> <<>>]
    /\ t_result = [t \in Threads |-> Pending]

\* ApaConverter(): self.location = False
Init ==
    /\ location = FalseV
    /\ entry_location = FalseV
    /\ op = "init"
    /\ input_text = <<>>
    /\ bibtex_type = NoneV
    /\ result = Pending
    /\ Idle

\* the caller sees r's outcome and the instance keeps r's location
Converted(text, type, r) ==
    /\ op' = "convert"
    /\ input_text' = text
    /\ bibtex_type' = type
    /\ entry_location' = location
    /\ result' = Outcome(r)
    /\ location' = r.location
    /\ UNCHANGED <<pc, t_text, t_full, t_result>>

\* one whole convert(text, type) call on the shared instance
Convert(text, type) == Converted(text, type, convert(location, text, type))

Next == \E c \in Calls : Convert(c.text, c.type)

Spec == Init /\ [][Next]_vars

NextReuse == \E c \in ReuseCalls : Convert(c.text, c.type)

SpecReuse == Init /\ [][NextReuse]_vars

(* Two callers inside convert on the same instance.  A caller's accesses to  *)
(* self.location are the write in get_publishers (line 210 or 212), the read *)
(* of `if self.location` (line 77) and the read of the f-string (line 78);   *)
(* everything else it touches is local to the call.                          *)

Published(t, text, ty, h, p) ==
        /\ pc[t] = "idle"
        /\ t_text' = [t_text EXCEPT ![t] = text]
        /\ IF h.kind = "raise"
           THEN /\ pc' = [pc EXCEPT ![t] = "done"]
                /\ t_result' = [t_result EXCEPT ![t] = h]
                /\ UNCHANGED <<location, t_full>>
           ELSE IF ty.val # <<"@","b","o","o","k">>
           THEN /\ pc' = [pc EXCEPT ![t] = "done"]
                /\ t_result' = [t_result EXCEPT ![t] = Outcome(convert(location, text, NoneV))]
                /\ UNCHANGED <<location, t_full>>
           ELSE IF p.kind = "raise"
           THEN /\ pc' = [pc EXCEPT ![t] = "done"]
                /\ t_result' = [t_result EXCEPT ![t] = Raise(p.exc)]
                /\ UNCHANGED <<location, t_full>>
           ELSE /\ pc' = [pc EXCEPT ![t] = "published"]
                /\ location' = p.location
                /\ t_full' = [t_full EXCEPT ![t] = h.val \o PublisherField(p.val)]
                /\ UNCHANGED t_result
        /\ UNCHANGED <<entry_location, op, input_text, bibtex_type, result>>

PublishAs(t, text, ty) ==
    Published(t, text, ty, Header(text, ty.val), get_publishers(location, text))

\* lines 52-75: up to and including get_publishers' write of self.location
T_Publish(t, text) == PublishAs(t, text, ResolveType(text, NoneV))

\* line 77: `if self.location:`; a falsy value ends the call at line 128
T_Test(t) ==
    /\ pc[t] = "published"
    /\ IF Truthy(location)
       THEN /\ pc' = [pc EXCEPT ![t] = "tested"]
            /\ UNCHANGED t_result
       ELSE /\ pc' = [pc EXCEPT ![t] = "done"]
            /\ t_result' = [t_result EXCEPT ![t] = Return(t_full[t] \o <<"}">>)]
    /\ UNCHANGED <<location, entry_location, op, input_text, bibtex_type, result,
                   t_text, t_full>>

\* line 78: the f-string reads self.location again; then line 128
T_Render(t) ==
    /\ pc[t] = "tested"
    /\ pc' = [pc EXCEPT ![t] = "done"]
    /\ t_full' = [t_full EXCEPT ![t] = t_full[t] \o LocationField(location)]
    /\ t_result' = [t_result EXCEPT ![t] = Return(t_full[t] \o LocationField(location) \o <<"}">>)]
    /\ UNCHANGED <<location, entry_location, op, input_text, bibtex_type, result, t_text>>

NextConc ==
    \E t \in Threads :
        \/ \E text \in ConcCitations : T_Publish(t, text)
        \/ T_Test(t)
        \/ T_Render(t)

SpecConc == Init /\ [][NextConc]_vars

(* The methods called on their own: the input is drawn, the method applied. *)

InitCall(method, inputs) ==
    /\ location = FalseV
    /\ entry_location = FalseV
    /\ op = method
    /\ input_text \in inputs
    /\ bibtex_type = NoneV
    /\ result = Pending
    /\ Idle

Unchanged == UNCHANGED <<location, entry_location, op, input_text, bibtex_type,
                         pc, t_text, t_full, t_result>>

CallSplitByPeriod ==
    /\ op = "split_by_period" /\ result = Pending
    /\ result' = Return(split_by_period(input_text))
    /\ Unchanged

SpecSplit == InitCall("split_by_period", SplitInputs) /\ [][CallSplitByPeriod]_vars

CallGetAuthors ==
    /\ op = "get_authors" /\ result = Pending
    /\ result' = Return([authors |-> AuthorsList(input_text), joined |-> get_authors(input_text)])
    /\ Unchanged

SpecAuthors == InitCall("get_authors", AuthorInputs) /\ [][CallGetAuthors]_vars

CallExtractBibtexType ==
    /\ op = "extract_bibtex_type" /\ result = Pending
    /\ result' = Return(extract_bibtex_type(input_text))
    /\ Unchanged

SpecClassify == InitCall("extract_bibtex_type", ClassifyInputs) /\ [][CallExtractBibtexType]_vars

-----------------------------------------------------------------------------
(* The properties *)

Called(method) == op = method /\ result # Pending

\* the phrases of an entry, comma-split and whitespace-trimmed
TrimmedPhrases(description) ==
    [k \in 1..Len(Split(description, <<",">>)) |-> Strip(Split(description, <<",">>)[k])]

TrimmedMatch(entry, input) ==
    \E k \in 1..Len(TrimmedPhrases(entry.description)) :
        Contains(Lower(input), TrimmedPhrases(entry.description)[k])

FirstTrimmedMatch(input) ==
    TypeOfHits({n \in 1..Len(bibtex_type_list) : TrimmedMatch(bibtex_type_list[n], input)})

\* C1: extract_bibtex_type returns '@' + the first type, in table order, one of
\* whose comma-split, whitespace-trimmed phrases occurs in the lower-cased
\* citation, and '@misc' exactly when no type has such a phrase.
C1_FirstTrimmedPhraseMatch ==
    Called("extract_bibtex_type") => result = Return(FirstTrimmedMatch(input_text))

RecognizedTypes == TableTypes \cup { <<"m","i","s","c">> }

\* C2: convert raises NameError exactly when a type is given that is neither one
\* of the twelve table types nor the fallback type misc.
C2_NameErrorIffUnknownType ==
    Called("convert") =>
        ((result.kind = "raise" /\ result.exc = "NameError")
            <=> (bibtex_type # NoneV /\ bibtex_type \notin RecognizedTypes))

\* C3: with a table type T declared by the caller, convert returns the record
\* it returns when the classifier yields T: '@T{citekey, ...' with T's fields.
C3_DeclaredTypeAsClassified ==
    (Called("convert") /\ bibtex_type \in TableTypes) =>
        result = Outcome(ConvertWith(entry_location, input_text, Return(<<"@">> \o bibtex_type)))

\* the citation has the '). ' that get_title needs, and its type is accepted
TitleAndTypeOk == get_title(input_text).kind = "return"
                  /\ ResolveType(input_text, bibtex_type).kind = "return"

AbsentTitleOrYear == get_title(input_text).val = NoneV \/ get_year(input_text) = NoneV

\* C4: when get_title or get_year returns None, convert does not raise: it
\* returns a record with the absent marker rendered into it.
C4_AbsentTitleOrYearTolerated ==
    (Called("convert") /\ TitleAndTypeOk /\ AbsentTitleOrYear) =>
        (result.kind = "return" /\ Contains(result.val, <<"N","o","n","e">>))

HeaderOk == ResolveType(input_text, bibtex_type).kind = "return"
            /\ Header(input_text, ResolveType(input_text, bibtex_type).val).kind = "return"

\* C5: a citation with fewer sentence segments than an extractor expects does
\* not make convert fail, whatever the entry type.
C5_MissingSegmentRecoverable ==
    (Called("convert") /\ HeaderOk /\ Len(split_by_period(input_text)) < 4) =>
        result.kind = "return"

\* the location get_publishers extracts from the call's own citation
OwnLocation(text) == get_publishers(FalseV, text).location

\* C6: the outcome of every convert call on a reused instance is the outcome of
\* the same call on a fresh instance, and a location field in the record is
\* the one of the call's own citation.
C6_OutcomeAsOnFreshInstance ==
    Called("convert") =>
        /\ result = Outcome(convert(FalseV, input_text, bibtex_type))
        /\ (result.kind = "return" /\ Contains(result.val, <<"l","o","c","a","t","i","o","n"," ","="," ","{">>))
             => Contains(result.val, LocationField(OwnLocation(input_text)))

\* a book without a location converted on an instance that held 'New York'
C6_BookAfterLocatedBook ==
    /\ Called("convert") /\ result.kind = "return"
    /\ entry_location = <<"N","e","w"," ","Y","o","r","k">> /\ location = FalseV
    /\ Contains(result.val, <<"p","u","b","l","i","s","h","e","r"," ","="," ","{","S","p","r","i","n","g","e","r","}">>)

\* C7: two convert calls interleaved on one instance each return the record
\* with the location of their own citation (the record of a fresh instance).
C7_NoLeakBetweenConcurrentCalls ==
    \A t \in Threads :
        pc[t] = "done" => t_result[t] = Outcome(convert(FalseV, t_text[t], NoneV))

\* the names get_authors works on: the first segment up to ' (', split on '.,'
RawNames(input) == Split(SplitOnce(split_by_period(input)[1], <<" ","(">>)[1], <<".",",">>)

\* a name trimmed, with '& ' removed
Trimmed(name) == Replace(Strip(name), <<"&"," ">>, <<>>)

\* C8: get_authors never raises; it joins the names with ' and '; two or more
\* names each end with a period (added when missing), a single name is
\* returned as trimmed, with no period added.
C8_AuthorsPeriodPolicy ==
    Called("get_authors") =>
        /\ result.kind = "return"
        /\ Len(result.val.authors) = Len(RawNames(input_text))
        /\ result.val.joined = Join(result.val.authors, <<" ","a","n","d"," ">>)
        /\ Len(RawNames(input_text)) = 1 => result.val.joined = Trimmed(RawNames(input_text)[1])
        /\ Len(RawNames(input_text)) > 1 =>
             \A i \in 1..Len(RawNames(input_text)) :
                /\ EndsWith(result.val.authors[i], <<".">>)
                /\ result.val.authors[i] \in {Trimmed(RawNames(input_text)[i]),
                                              Trimmed(RawNames(input_text)[i]) \o <<".">>}

\* two names, neither with its period: both get one
C8_TwoNamesGetPeriods ==
    /\ Called("get_authors")
    /\ input_text = <<"a",".",",","&"," ","a">>
    /\ result.val.joined = <<"a","."," ","a","n","d"," ","a",".">>

WithoutTrailingPeriod(s) == IF EndsWith(s, <<".">>) THEN SubSeq(s, 1, Len(s) - 1) ELSE s

Field(name, value) == name \o <<" ","="," ","{">> \o value \o <<"}">>

\* the comma-separated parts of the third sentence segment
JournalParts(input) == Split(split_by_period(input)[3], <<",">>)

HasField(name) == Contains(result.val, name \o <<" ","="," ","{">>)

\* the article fields the claim gives for the parts p
ClaimedArticleFields(p) ==
    IF Len(p) = 1
    THEN /\ Contains(result.val, Field(<<"j","o","u","r","n","a","l">>, WithoutTrailingPeriod(Strip(p[1]))))
         /\ ~HasField(<<"v","o","l","u","m","e">>) /\ ~HasField(<<"p","a","g","e","s">>) /\ ~HasField(<<"n","u","m","b","e","r">>)
    ELSE IF Len(p) = 2
    THEN /\ HasField(<<"j","o","u","r","n","a","l">>)
         /\ IF Contains(p[2], <<"-">>)
            THEN Contains(result.val, Field(<<"p","a","g","e","s">>, remove_non_numeric_chars(p[2])))
                 /\ ~HasField(<<"v","o","l","u","m","e">>)
            ELSE HasField(<<"v","o","l","u","m","e">>) /\ ~HasField(<<"p","a","g","e","s">>)
    ELSE IF Len(p) = 3
    THEN /\ HasField(<<"j","o","u","r","n","a","l">>) /\ HasField(<<"v","o","l","u","m","e">>) /\ HasField(<<"p","a","g","e","s">>)
         /\ HasField(<<"n","u","m","b","e","r">>) <=> Contains(p[2], <<"(">>)
    ELSE TRUE

\* C9: for an article, the number of comma-separated parts of the third segment
\* decides the fields: one part only journal, two parts journal and pages or
\* volume, three parts journal, volume (and number) and pages.
C9_ArticleFieldsByParts ==
    (Called("convert") /\ bibtex_type = NoneV /\ HeaderOk
        /\ extract_bibtex_type(input_text) = <<"@","a","r","t","i","c","l","e">>
        /\ Len(split_by_period(input_text)) >= 3) =>
        (result.kind = "return" /\ ClaimedArticleFields(JournalParts(input_text)))

\* the word that ends at i - 1: the characters back to the last space
RECURSIVE WordBefore(_, _)
WordBefore(s, i) ==
    IF i = 1 \/ IsSpace(s[i - 1]) THEN <<>> ELSE WordBefore(s, i - 1) \o <<s[i - 1]>>

\* a period followed by a space, after a word of two or more characters that is
\* not the abbreviation pp
ClaimedSplitPoint(s, i) ==
    /\ i + 1 <= Len(s) /\ s[i] = "." /\ s[i + 1] = " "
    /\ Len(WordBefore(s, i)) >= 2
    /\ WordBefore(s, i) # <<"p","p">>

RECURSIVE ClaimedSplit(_, _)
ClaimedSplit(s, from) ==
    IF \E i \in from..Len(s) : ClaimedSplitPoint(s, i)
    THEN <<SubSeq(s, from, Min({i \in from..Len(s) : ClaimedSplitPoint(s, i)}) - 1)>>
         \o ClaimedSplit(s, Min({i \in from..Len(s) : ClaimedSplitPoint(s, i)}) + 2)
    ELSE <<SubSeq(s, from, Len(s))>>

\* C10: split_by_period splits at every '. ' except after a single-character
\* token or the abbreviations 'p.' and 'pp.'.
C10_SplitAfterEveryWord ==
    Called("split_by_period") => result = Return(ClaimedSplit(input_text, 1))

====
